---- MODULE Spec2Model ----
(***************************************************************************)
(* ThinkInk backend (src/index.js): registration, login, session tokens    *)
(* and the post create / update / delete handlers with their Cloudinary    *)
(* cover objects.  index.js holds two live copies of the handlers (lines   *)
(* 1-268 and 549-967); `variant` says which copy is deployed.              *)
(*                                                                         *)
(* Every `await` of a handler is a point where other requests may run, so  *)
(* a handler is one action per stretch of code between two awaits.  The    *)
(* database, the media store and bcrypt/jsonwebtoken are modelled by what  *)
(* the handlers observe of them.                                           *)
(***************************************************************************)
EXTENDS Integers, Sequences, FiniteSets, TLC

VARIABLES
    variant,    \* 1: handlers of lines 47-264, 2: handlers of lines 612-961
    now,        \* wall clock, seconds
    users,      \* User collection: sequence of documents, index = _id
    minted,     \* tokens issued by /login so far (any caller may still hold one)
    loggedOut,  \* the issued tokens whose holder has called /logout since (the
                \* server keeps no such record: it is kept here to speak of it)
    posts,      \* Post collection: _id -> document
    nextPost,   \* number of Post documents ever inserted
    media,      \* Cloudinary: ids of the objects that are stored now
    nextObj,    \* number of objects ever uploaded
    reqs,       \* the requests in flight or answered, per connection
    sent,       \* the request that ended in the step just taken (Idle: none did)
    hist        \* per post: what the creating call sent and got, and later writes

vars == <<variant, now, users, minted, loggedOut, posts, nextPost, media, nextObj, reqs, sent, hist>>

(***************************** bounds **************************************)
MaxUsers == 2       \* User documents
MaxObjects == 2     \* media objects ever uploaded
MaxTicks == 1       \* clock steps
MaxTokens == 2      \* tokens minted

(***************************** constants ***********************************)
TokenTTL == 3600    \* expiresIn: '1h'
ClockStep == TokenTTL   \* the clock is watched once per validity window

Conns == {"c1", "c2"}
Usernames == {"alice", "bob"}
Passwords == {"pw1", "pw2"}
Missing == ""       \* an undefined or empty request field (falsy in JS)

\* The handlers address one post by its id and never read another, so the
\* Post collection is followed for the one id it hands out first.
PostIds == {1}

(***************************** bcrypt **************************************)
\* bcrypt.hash(password, 10): never the plaintext, and compare() accepts
\* exactly the password that was hashed.
BcryptHash(password) == <<"$2a$10$", password>>
BcryptCompare(password, hashed) == hashed = BcryptHash(password)

(***************************** jsonwebtoken ********************************)
AbsentToken == [form |-> "absent", userId |-> 0, username |-> Missing, iat |-> 0, key |-> "none"]
MalformedToken == [form |-> "malformed", userId |-> 0, username |-> Missing, iat |-> 0, key |-> "none"]

\* jwt.sign({userId, username}, secret, {expiresIn: '1h'}) at time t
JwtSign(userId, username, t) ==
    [form |-> "jwt", userId |-> userId, username |-> username, iat |-> t, key |-> "secret"]

\* a well-formed token signed with a key that is not the server's secret
ForgedToken(userId, username, t) ==
    [form |-> "jwt", userId |-> userId, username |-> username, iat |-> t, key |-> "other"]

\* a verify that consults a list of logged-out tokens
JwtVerifyUnlessLoggedOut(token, t) ==
    /\ token.form = "jwt"
    /\ token.key = "secret"
    /\ t < token.iat + TokenTTL
    /\ token \notin loggedOut

JwtVerifyNoExpiry(token, t) ==
    /\ token.form = "jwt"
    /\ token.key = "secret"

\* jwt.verify(token, secret, cb) at time t: err unless the token is a JWT
\* signed with the secret whose exp (iat + 1h) is still ahead.
JwtVerify(token, t) ==
    /\ token.form = "jwt"
    /\ token.key = "secret"
    /\ t < token.iat + TokenTTL

\* the cookies a caller can send: none, garbage, a token some login issued,
\* or a token for the first user that the caller signed itself
TokenInputs ==
    {AbsentToken, MalformedToken} \cup minted
      \cup {ForgedToken(u, users[u].username, now) : u \in 1..Len(users) \cap {1}}

(***************************** User collection *****************************)
\* User.findOne({username}): the first document with that username, 0 if none
FindUser(username) ==
    IF \E u \in 1..Len(users) : users[u].username = username
    THEN CHOOSE u \in 1..Len(users) :
            /\ users[u].username = username
            /\ \A v \in 1..(u - 1) : users[v].username # username
    ELSE 0

(***************************** cover locators ******************************)
\* A locator is the text of a URL, kept as the sequence of its pieces:
\* the separators "/" and "." and the runs of text between them.
Max(S) == CHOOSE x \in S : \A y \in S : y <= x
Min(S) == CHOOSE x \in S : \A y \in S : x <= y
Positions(text, sep) == {i \in 1..Len(text) : text[i] = sep}

\* text.split(sep).pop()
SplitPop(text, sep) ==
    IF Positions(text, sep) = {} THEN text
    ELSE SubSeq(text, Max(Positions(text, sep)) + 1, Len(text))

\* text.split(sep)[0]
SplitFirst(text, sep) ==
    IF Positions(text, sep) = {} THEN text
    ELSE SubSeq(text, 1, Min(Positions(text, sep)) - 1)

NoCover == <<>>     \* cover undefined (falsy)

PublicIdDotFirst(cover) == <<"posts", "/">> \o SplitPop(SplitFirst(cover, "."), "/")

\* `posts/${cover.split('/').pop().split('.')[0]}`
PublicIdOf(cover) == <<"posts", "/">> \o SplitFirst(SplitPop(cover, "/"), ".")

(***************************** Cloudinary *********************************)
\* cloudinary.uploader.upload(path, {folder: 'posts/'}) stores the o-th
\* object under public id posts/<name> and answers its secure_url.
ObjName(o) == ToString(o)
PublicId(o) == <<"posts", "/", ObjName(o)>>
SecureUrl(o) ==
    <<"https:", "/", "/", "res", ".", "cloudinary", ".", "com", "/", "image", "/",
      "upload", "/", "posts", "/", ObjName(o), ".", "jpg">>

\* cloudinary.uploader.destroy(publicId): the object of that public id, if
\* there is one, is gone afterwards
Destroy(store, publicId) == {o \in store : PublicId(o) # publicId}

(***************************** Post collection *****************************)
\* the multipart text fields a caller sends
Body(title, summary, content) == [title |-> title, summary |-> summary, content |-> content]
EmptyBody == Body(Missing, Missing, Missing)
FullBodies == {Body("T1", "S1", "C1"), Body("T2", "S2", "C2")}
\* POST /post is tried with one complete body and with each field missing
CreateBodies ==
    {Body("T1", "S1", "C1"), Body(Missing, "S1", "C1"), Body("T1", Missing, "C1"),
     Body("T1", "S1", Missing)}
\* PUT /post/:id is tried with the complete bodies
PutBodies == FullBodies

\* !title || !summary || !content
MissingFields(body) ==
    body.title = Missing \/ body.summary = Missing \/ body.content = Missing

\* JSON.stringify of an ObjectId and of the token's userId claim: the id's
\* text in double quotes
JsonStringify(id) == <<"\"", ToString(id), "\"">>

IsAuthorAlways(doc, userId) == TRUE

\* JSON.stringify(postDoc.author) === JSON.stringify(info.userId)
IsAuthor(doc, userId) == JsonStringify(doc.author) = JsonStringify(userId)

(***************************** requests ************************************)
\* what a caller's cookie amounts to when the handler reads it at time t
TokenState(token, t) ==
    IF token.form = "absent" THEN "absent"
    ELSE IF token.form = "malformed" THEN "malformed"
    ELSE IF token.key # "secret" THEN "wrong signature"
    ELSE IF t - token.iat >= TokenTTL THEN "expired"
    ELSE "good"

\* A request: what its handler has read of its inputs (cookie: the token
\* cookie it came with, or the one a login answers with, cred: the state of
\* the cookie it carried, userId: the verified userId claim, username and
\* password, id, body: req.body once it is read, file), where its handler
\* stands (pc), the handler's locals (doc, newCover), its response (status,
\* error, cookie, outId, post) and what it has done so far (looked: a post
\* lookup was issued, uploads: upload calls issued, destroyed: the public ids
\* of the destroy calls issued, writes: documents inserted, saved or deleted).
\* file: "none" (no upload came with the request), "temp" (multer's file),
\* "renamed" (moved to tempPath + extension), "deleted" (unlinked).
NoPost ==
    [exists |-> FALSE, title |-> Missing, summary |-> Missing, content |-> Missing,
     cover |-> NoCover, author |-> 0]

Idle ==
    [kind |-> "none", pc |-> "idle", cred |-> "absent", userId |-> 0,
     username |-> Missing, password |-> Missing,
     id |-> 0, body |-> EmptyBody, file |-> "none", doc |-> NoPost, newCover |-> NoCover,
     status |-> 0, error |-> "", cookie |-> AbsentToken, outId |-> 0, post |-> NoPost,
     looked |-> FALSE, uploads |-> 0, destroyed |-> <<>>, writes |-> 0]

\* the connection a new request arrives on: connections differ in name only,
\* so the first free one is taken
Free(c) ==
    /\ sent = Idle
    /\ reqs[c].pc = "idle"
    /\ \A d \in Conns : reqs[d].pc = "idle" => ~(d = "c1" /\ c = "c2")

Respond(r, status, error) == [r EXCEPT !.pc = "done", !.status = status, !.error = error]

\* an exception nobody catches: the promise of the async callback rejects
\* and no response is ever written
Hang(r) == [r EXCEPT !.pc = "hung"]

\* what the call that created a post and answered 201 had sent and had got
\* back from the upload, kept until a later call writes or deletes the post
\* (touched); by: the verified userId of the call that inserted the post,
\* kept for good
NoHist == [made |-> FALSE, body |-> EmptyBody, cover |-> NoCover, by |-> 0, touched |-> FALSE]

(***************************** initial states ******************************)
\* a fresh deployment on an empty database
InitAuth ==
    /\ variant = 2
    /\ now = 0
    /\ users = <<>>
    /\ minted = {}
    /\ loggedOut = {}
    /\ posts = [p \in PostIds |-> NoPost]
    /\ nextPost = 0
    /\ media = {}
    /\ nextObj = 0
    /\ reqs = [c \in Conns |-> Idle]
    /\ sent = Idle
    /\ hist = [p \in PostIds |-> NoHist]

\* a Post document without a cover (the field is optional in the data model)
LegacyPost ==
    [exists |-> TRUE, title |-> "T1", summary |-> "S1", content |-> "C1",
     cover |-> NoCover, author |-> 1]

\* a deployment of either copy of the handlers on a database in which alice
\* and bob have registered, one validity window after alice logged in first
\* and right after alice and bob have logged in; the Post collection is
\* empty or holds a post of alice that has no cover
InitPosts ==
    /\ variant \in {1, 2}
    /\ now = TokenTTL
    /\ users = << [username |-> "alice", password |-> BcryptHash("pw1")],
                  [username |-> "bob", password |-> BcryptHash("pw2")] >>
    /\ minted = {JwtSign(1, "alice", 0), JwtSign(1, "alice", TokenTTL),
                 JwtSign(2, "bob", TokenTTL)}
    /\ loggedOut = {}
    /\ \/ posts = [p \in PostIds |-> NoPost] /\ nextPost = 0
       \/ posts = [p \in PostIds |-> LegacyPost] /\ nextPost = 1
    /\ media = {}
    /\ nextObj = 0
    /\ reqs = [c \in Conns |-> Idle]
    /\ sent = Idle
    /\ hist = [p \in PostIds |-> [NoHist EXCEPT !.by = posts[p].author]]

\* request r of connection c goes on (still in flight), or ends: the
\* connection is free again and `sent` shows the ended request
Step(c, r) ==
    IF r.pc \in {"done", "hung"}
    THEN reqs' = [reqs EXCEPT ![c] = Idle] /\ sent' = r
    ELSE reqs' = [reqs EXCEPT ![c] = r] /\ sent' = Idle

\* a request whose handler runs from reading to answering in one step
Answer(r) == sent = Idle /\ sent' = r /\ reqs' = reqs

\* the handler of connection c is at pc and the event loop runs it next
At(c, kind, pc) == sent = Idle /\ reqs[c].kind = kind /\ reqs[c].pc = pc

\* the response (or the abandoned request) shown in `sent` leaves the server
Flush ==
    /\ sent # Idle
    /\ sent' = Idle
    /\ UNCHANGED <<variant, loggedOut, now, users, minted, posts, nextPost, media, nextObj, reqs, hist>>

(***************************** the clock ***********************************)
Tick ==
    /\ sent = Idle
    /\ now < MaxTicks * ClockStep
    /\ now' = now + ClockStep
    /\ sent' = Idle
    /\ UNCHANGED <<variant, loggedOut, users, minted, posts, nextPost, media, nextObj, reqs, hist>>

(***************************** POST /register ******************************)
\* lines 612-623: validation, then User.findOne({username})
RegisterStart(c, username, password, dbOk) ==
    /\ Free(c)
    /\ LET r == [Idle EXCEPT !.kind = "register", !.username = username,
                             !.password = password]
       IN Step(c, IF username = Missing \/ password = Missing
                  THEN Respond(r, 400, "Username and password are required")
                  ELSE IF ~dbOk
                  THEN Respond(r, 500, "Registration failed")
                  ELSE IF FindUser(username) # 0
                  THEN Respond(r, 400, "Username already exists")
                  ELSE [r EXCEPT !.pc = "create"])
    /\ UNCHANGED <<variant, loggedOut, now, users, minted, posts, nextPost, media, nextObj, hist>>

\* User.create(doc): the collection takes the document as it is; nothing in
\* the store refuses a second document with the same username
UserCreate(coll, doc) == Append(coll, doc)

\* lines 625-628: bcrypt.hash, User.create, 201
RegisterCreate(c, dbOk) ==
    /\ At(c, "register", "create")
    /\ IF dbOk
       THEN /\ Len(users) < MaxUsers
            /\ users' = UserCreate(users, [username |-> reqs[c].username,
                                           password |-> BcryptHash(reqs[c].password)])
            /\ Step(c, [Respond(reqs[c], 201, "") EXCEPT !.outId = Len(users) + 1,
                                                         !.writes = 1])
       ELSE /\ users' = users
            /\ Step(c, Respond(reqs[c], 500, "Registration failed"))
    /\ UNCHANGED <<variant, loggedOut, now, minted, posts, nextPost, media, nextObj, hist>>

(***************************** POST /login *********************************)
\* lines 636-666.  The user document that findOne returned is all the later
\* steps read, and documents of users never change, so the handler's awaits
\* are taken in one step.
Login(username, password, dbOk) ==
    LET u == FindUser(username)
        token == JwtSign(u, users[u].username, now)
        r == [Idle EXCEPT !.kind = "login", !.username = username, !.password = password]
    IN /\ IF username = Missing \/ password = Missing
          THEN /\ Answer(Respond(r, 400, "Username and password are required"))
               /\ minted' = minted
          ELSE IF ~dbOk
          THEN /\ Answer(Respond(r, 500, "Login failed"))
               /\ minted' = minted
          ELSE IF u = 0
          THEN /\ Answer(Respond(r, 400, "Invalid credentials"))
               /\ minted' = minted
          ELSE IF ~BcryptCompare(password, users[u].password)
          THEN /\ Answer(Respond(r, 400, "Invalid credentials"))
               /\ minted' = minted
          ELSE /\ token \in minted \/ Cardinality(minted) < MaxTokens
               /\ Answer([Respond(r, 200, "") EXCEPT !.cookie = token])
               /\ minted' = minted \cup {token}
       /\ UNCHANGED <<variant, loggedOut, now, users, posts, nextPost, media, nextObj, hist>>

(***************************** GET /profile ********************************)
\* lines 672-684
Profile(token) ==
    LET r == [Idle EXCEPT !.kind = "profile", !.cred = TokenState(token, now),
                          !.cookie = token]
    IN /\ Answer(IF token.form = "absent" THEN Respond(r, 401, "Unauthorized")
                 ELSE IF ~JwtVerify(token, now) THEN Respond(r, 401, "Invalid token")
                 ELSE [Respond(r, 200, "") EXCEPT !.userId = token.userId,
                                                  !.username = token.username])
       /\ UNCHANGED <<variant, loggedOut, now, users, minted, posts, nextPost, media, nextObj, hist>>

(***************************** POST /logout ********************************)
\* lines 686-688: the answer tells the caller to drop its cookie; the cookie
\* the request came with is not read and no state of the server is read or
\* written
Logout(token) ==
    /\ Answer(Respond([Idle EXCEPT !.kind = "logout"], 200, ""))
    /\ loggedOut' = loggedOut \cup ({token} \cap minted)
    /\ UNCHANGED <<variant, now, users, minted, posts, nextPost, media, nextObj, hist>>

NextAuth ==
    \/ Flush
    \/ Tick
    \/ \E c \in Conns, username \in Usernames \cup {Missing},
          password \in Passwords \cup {Missing}, dbOk \in BOOLEAN :
            RegisterStart(c, username, password, dbOk)
    \/ \E c \in Conns, dbOk \in BOOLEAN : RegisterCreate(c, dbOk)
    \/ \E username \in Usernames \cup {Missing}, password \in Passwords \cup {Missing},
          dbOk \in BOOLEAN : Login(username, password, dbOk)
    \/ \E token \in TokenInputs : Profile(token)
    \/ \E token \in TokenInputs : Logout(token)

SpecAuth == InitAuth /\ [][NextAuth]_vars

(***************************** POST /post **********************************)
\* Copy 2, lines 723-746: req.file is read first (a TypeError without a file,
\* caught by the handler's try: 500), the temp file is renamed, and only then
\* come the cookie, jwt.verify and the validation of the fields.
CreateStart2(r, token, body) ==
    IF r.file = "none" THEN Respond(r, 500, "Failed to create post")
    ELSE LET q == [r EXCEPT !.file = "renamed"]
             v == [q EXCEPT !.userId = token.userId, !.body = body]
         IN IF token.form = "absent" THEN Respond(q, 401, "Unauthorized")
            ELSE IF ~JwtVerify(token, now) THEN Respond(q, 401, "Invalid token")
            ELSE IF MissingFields(body) THEN Respond(v, 400, "Missing required fields")
            ELSE [v EXCEPT !.pc = "upload"]

\* Copy 1, lines 124-141: cookie, jwt.verify, validation; req.file.path is
\* read inside the async callback, where a TypeError is caught by nobody.
CreateStart1(r, token, body) ==
    LET v == [r EXCEPT !.userId = token.userId, !.body = body]
    IN IF token.form = "absent" THEN Respond(r, 401, "Unauthorized")
       ELSE IF ~JwtVerify(token, now) THEN Respond(r, 401, "Invalid token")
       ELSE IF MissingFields(body) THEN Respond(v, 400, "Missing required fields")
       ELSE IF r.file = "none" THEN Hang(v)
       ELSE [v EXCEPT !.pc = "upload"]

CreateStart(c, token, body, hasFile) ==
    /\ Free(c)
    /\ LET r == [Idle EXCEPT !.kind = "create", !.cred = TokenState(token, now),
                             !.file = IF hasFile THEN "temp" ELSE "none"]
       IN Step(c, IF variant = 2 THEN CreateStart2([r EXCEPT !.cookie = token], token, body)
                  ELSE CreateStart1([r EXCEPT !.cookie = token], token, body))
    /\ UNCHANGED <<variant, loggedOut, now, users, minted, posts, nextPost, media, nextObj, hist>>

\* lines 749-755 (142-147): cloudinary.uploader.upload, then fs.unlinkSync.
\* A rejected upload leaves the async callback: nothing is unlinked and no
\* response is written.
CreateUpload(c, ok) ==
    /\ At(c, "create", "upload")
    /\ LET r == [reqs[c] EXCEPT !.uploads = @ + 1]
       IN IF ok
          THEN /\ nextObj < MaxObjects
               /\ nextObj' = nextObj + 1
               /\ media' = media \cup {nextObj + 1}
               /\ Step(c, [r EXCEPT !.pc = "insert", !.newCover = SecureUrl(nextObj + 1),
                                    !.file = "deleted"])
          ELSE /\ UNCHANGED <<nextObj, media>>
               /\ Step(c, Hang(r))
    /\ UNCHANGED <<variant, loggedOut, now, users, minted, posts, nextPost, hist>>

\* the document PostModel.create stores for the request
NewPostSwapped(r) ==
    [exists |-> TRUE, title |-> r.body.summary, summary |-> r.body.title,
     content |-> r.body.content, cover |-> r.newCover, author |-> r.userId]

\* the author taken from a fixed user instead of the token's claim
NewPostFirstUser(r) ==
    [exists |-> TRUE, title |-> r.body.title, summary |-> r.body.summary,
     content |-> r.body.content, cover |-> r.newCover, author |-> 1]

\* lines 758-764: title, summary, content of req.body, the upload's
\* secure_url, and author: info.userId of the verified token
NewPost(r) ==
    [exists |-> TRUE, title |-> r.body.title, summary |-> r.body.summary,
     content |-> r.body.content, cover |-> r.newCover, author |-> r.userId]

\* lines 758-769 (149-159): PostModel.create, populate('author'), 201.
\* outcome: "ok", "create fails" or "populate fails", both uncaught.
CreateInsert(c, outcome) ==
    /\ At(c, "create", "insert")
    /\ LET r == reqs[c]
           id == nextPost + 1
       IN IF outcome = "create fails"
          THEN /\ UNCHANGED <<posts, nextPost, hist>>
               /\ Step(c, Hang(r))
          ELSE /\ id \in PostIds
               /\ nextPost' = id
               /\ posts' = [posts EXCEPT ![id] = NewPost(r)]
               /\ hist' = [hist EXCEPT ![id] =
                              [made |-> outcome = "ok", body |-> r.body,
                               cover |-> r.newCover, by |-> r.userId, touched |-> FALSE]]
               /\ Step(c, IF outcome = "ok"
                          THEN [Respond(r, 201, "") EXCEPT !.outId = id, !.writes = 1,
                                                           !.post = posts'[id]]
                          ELSE Hang([r EXCEPT !.writes = 1]))
    /\ UNCHANGED <<variant, loggedOut, now, users, minted, media, nextObj>>

(***************************** PUT /post/:id *******************************)
\* lines 824-830 (168-173): jwt.verify(token, ...) of whatever the cookie
\* holds; an absent cookie makes verify fail like any other bad token
PutStart(c, token, id, body, hasFile) ==
    /\ Free(c)
    /\ LET r == [Idle EXCEPT !.kind = "put", !.cred = TokenState(token, now), !.id = id,
                             !.cookie = token,
                             !.file = IF hasFile THEN "temp" ELSE "none"]
       IN Step(c, IF ~JwtVerify(token, now) THEN Respond(r, 401, "Unauthorized")
                  ELSE [r EXCEPT !.userId = token.userId, !.body = body, !.pc = "find"])
    /\ UNCHANGED <<variant, loggedOut, now, users, minted, posts, nextPost, media, nextObj, hist>>

\* lines 833-844 (175-185): PostModel.findById, 404, the author check, 403
PutFind(c, ok) ==
    /\ At(c, "put", "find")
    /\ LET r == [reqs[c] EXCEPT !.looked = TRUE]
           doc == posts[r.id]
       IN Step(c, IF ~ok THEN Hang(r)
                  ELSE IF ~doc.exists THEN Respond(r, 404, "Post not found")
                  ELSE IF ~IsAuthor(doc, r.userId)
                  THEN Respond([r EXCEPT !.doc = doc], 403, "Forbidden")
                  ELSE [r EXCEPT !.doc = doc, !.newCover = doc.cover,
                                 !.pc = IF r.file = "none" THEN "save" ELSE "upload"])
    /\ UNCHANGED <<variant, loggedOut, now, users, minted, posts, nextPost, media, nextObj, hist>>

AfterUploadAlwaysDestroy(doc) == "destroy"

\* line 855 (192): if (postDoc.cover) the old object is destroyed next,
\* otherwise the handler goes on to unlink and save
AfterUpload(doc) == IF doc.cover # NoCover THEN "destroy" ELSE "save"

\* lines 846-862 (187-198): upload of the new file; with no previous cover
\* the temp file is unlinked right away
PutUpload(c, ok) ==
    /\ At(c, "put", "upload")
    /\ LET r == [reqs[c] EXCEPT !.uploads = @ + 1]
       IN IF ok
          THEN /\ nextObj < MaxObjects
               /\ nextObj' = nextObj + 1
               /\ media' = media \cup {nextObj + 1}
               /\ Step(c, IF AfterUpload(r.doc) = "destroy"
                          THEN [r EXCEPT !.newCover = SecureUrl(nextObj + 1),
                                         !.pc = "destroy"]
                          ELSE [r EXCEPT !.newCover = SecureUrl(nextObj + 1),
                                         !.file = "deleted", !.pc = "save"])
          ELSE /\ UNCHANGED <<nextObj, media>>
               /\ Step(c, Hang(r))
    /\ UNCHANGED <<variant, loggedOut, now, users, minted, posts, nextPost, hist>>

\* lines 855-861 (192-198): destroy of the previous cover's object, then
\* fs.unlinkSync of the temp file.  A rejected destroy is awaited with no
\* try/catch around it, so it ends the async callback (error: the rejection).
PutDestroy(c, ok) ==
    /\ At(c, "put", "destroy")
    /\ LET r == [reqs[c] EXCEPT !.destroyed = Append(@, PublicIdOf(reqs[c].doc.cover))]
       IN IF ok
          THEN /\ media' = Destroy(media, PublicIdOf(r.doc.cover))
               /\ Step(c, [r EXCEPT !.file = "deleted", !.pc = "save"])
          ELSE /\ media' = media
               /\ Step(c, Hang([r EXCEPT !.error = "destroy rejected"]))
    /\ UNCHANGED <<variant, loggedOut, now, users, minted, posts, nextPost, nextObj, hist>>

\* a save that sends all four assigned values, changed or not
SavedAllPaths(stored, doc, body, cover) ==
    [stored EXCEPT !.title = body.title, !.summary = body.summary,
                   !.content = body.content, !.cover = cover]

\* postDoc.save() after the four assignments of lines 865-868: Mongoose
\* sends the paths whose assigned value differs from the loaded one
Saved(stored, doc, body, cover) ==
    [stored EXCEPT
        !.title = IF body.title # doc.title THEN body.title ELSE @,
        !.summary = IF body.summary # doc.summary THEN body.summary ELSE @,
        !.content = IF body.content # doc.content THEN body.content ELSE @,
        !.cover = IF cover # doc.cover THEN cover ELSE @]

\* lines 865-874 (201-208): save() rejects when the document is gone from
\* the collection (DocumentNotFoundError); 200 with postDoc as assigned
PutSave(c, ok) ==
    /\ At(c, "put", "save")
    /\ LET r == reqs[c]
       IN IF ok /\ posts[r.id].exists
          THEN /\ posts' = [posts EXCEPT ![r.id] = Saved(@, r.doc, r.body, r.newCover)]
               /\ hist' = [hist EXCEPT ![r.id] = [NoHist EXCEPT !.made = TRUE, !.touched = TRUE,
                                                                !.by = hist[r.id].by]]
               /\ Step(c, [Respond(r, 200, "") EXCEPT
                              !.writes = 1,
                              !.post = [r.doc EXCEPT !.title = r.body.title,
                                                     !.summary = r.body.summary,
                                                     !.content = r.body.content,
                                                     !.cover = r.newCover]])
          ELSE /\ UNCHANGED <<posts, hist>>
               /\ Step(c, Hang(r))
    /\ UNCHANGED <<variant, loggedOut, now, users, minted, nextPost, media, nextObj>>

(***************************** DELETE /post/:id ****************************)
\* lines 935-940 (213-218)
DeleteStart(c, token, id) ==
    /\ Free(c)
    /\ LET r == [Idle EXCEPT !.kind = "delete", !.cred = TokenState(token, now), !.id = id,
                             !.cookie = token]
       IN Step(c, IF ~JwtVerify(token, now) THEN Respond(r, 401, "Unauthorized")
                  ELSE [r EXCEPT !.userId = token.userId, !.pc = "find"])
    /\ UNCHANGED <<variant, loggedOut, now, users, minted, posts, nextPost, media, nextObj, hist>>

\* lines 943-948 (220-227).  Copy 2 deletes the row next; copy 1 destroys
\* the cover object first when there is one.
DeleteFind(c, ok) ==
    /\ At(c, "delete", "find")
    /\ LET r == [reqs[c] EXCEPT !.looked = TRUE]
           doc == posts[r.id]
       IN Step(c, IF ~ok THEN Hang(r)
                  ELSE IF ~doc.exists THEN Respond(r, 404, "Post not found")
                  ELSE IF ~IsAuthor(doc, r.userId)
                  THEN Respond([r EXCEPT !.doc = doc], 403, "Forbidden")
                  ELSE [r EXCEPT !.doc = doc,
                                 !.pc = IF variant = 1 /\ doc.cover # NoCover
                                        THEN "destroy" ELSE "remove"])
    /\ UNCHANGED <<variant, loggedOut, now, users, minted, posts, nextPost, media, nextObj, hist>>

\* line 951 (232): PostModel.findByIdAndDelete(id)
DeleteRemove(c, ok) ==
    /\ At(c, "delete", "remove")
    /\ LET r == reqs[c]
       IN IF ok
          THEN /\ posts' = [posts EXCEPT ![r.id] = NoPost]
               /\ hist' = [hist EXCEPT ![r.id] = [NoHist EXCEPT !.made = TRUE, !.touched = TRUE,
                                                                !.by = hist[r.id].by]]
               /\ Step(c, IF variant = 2 /\ r.doc.cover # NoCover
                          THEN [r EXCEPT !.writes = 1, !.pc = "destroy"]
                          ELSE Respond([r EXCEPT !.writes = 1], 200, ""))
          ELSE /\ UNCHANGED <<posts, hist>>
               /\ Step(c, Hang(r))
    /\ UNCHANGED <<variant, loggedOut, now, users, minted, nextPost, media, nextObj>>

\* lines 954-959 (227-230): destroy of the cover's object
DeleteDestroy(c, ok) ==
    /\ At(c, "delete", "destroy")
    /\ LET r == [reqs[c] EXCEPT !.destroyed = Append(@, PublicIdOf(reqs[c].doc.cover))]
       IN IF ok
          THEN /\ media' = Destroy(media, PublicIdOf(r.doc.cover))
               /\ Step(c, IF variant = 2 THEN Respond(r, 200, "")
                          ELSE [r EXCEPT !.pc = "remove"])
          ELSE /\ media' = media
               /\ Step(c, Hang([r EXCEPT !.error = "destroy rejected"]))
    /\ UNCHANGED <<variant, loggedOut, now, users, minted, posts, nextPost, nextObj, hist>>

(***************************** GET /post/:id *******************************)
\* lines 895-905: findById + populate inside try/catch
GetPost(id, ok) ==
    /\ LET r == [Idle EXCEPT !.kind = "get", !.id = id]
       IN Answer(IF ~ok THEN Respond(r, 500, "Failed to fetch post")
                 ELSE IF ~posts[id].exists THEN Respond(r, 404, "Post not found")
                 ELSE [Respond(r, 200, "") EXCEPT
                          !.post = posts[id],
                          !.username = users[posts[id].author].username])
    /\ UNCHANGED <<variant, loggedOut, now, users, minted, posts, nextPost, media, nextObj, hist>>

NextPosts ==
    \/ Flush
    \/ \E c \in Conns, token \in TokenInputs, body \in CreateBodies, hasFile \in BOOLEAN :
            CreateStart(c, token, body, hasFile)
    \/ \E c \in Conns, ok \in BOOLEAN : CreateUpload(c, ok)
    \/ \E c \in Conns, outcome \in {"ok", "create fails", "populate fails"} :
            CreateInsert(c, outcome)
    \/ \E c \in Conns, token \in TokenInputs, id \in PostIds, body \in PutBodies,
          hasFile \in BOOLEAN : PutStart(c, token, id, body, hasFile)
    \/ \E c \in Conns, ok \in BOOLEAN : PutFind(c, ok)
    \/ \E c \in Conns, ok \in BOOLEAN : PutUpload(c, ok)
    \/ \E c \in Conns, ok \in BOOLEAN : PutDestroy(c, ok)
    \/ \E c \in Conns, ok \in BOOLEAN : PutSave(c, ok)
    \/ \E c \in Conns, token \in TokenInputs, id \in PostIds : DeleteStart(c, token, id)
    \/ \E c \in Conns, ok \in BOOLEAN : DeleteFind(c, ok)
    \/ \E c \in Conns, ok \in BOOLEAN : DeleteRemove(c, ok)
    \/ \E c \in Conns, ok \in BOOLEAN : DeleteDestroy(c, ok)
    \/ \E id \in PostIds, ok \in BOOLEAN : GetPost(id, ok)

SpecPosts == InitPosts /\ [][NextPosts]_vars

(***************************** sessions ************************************)
\* a deployment of either copy on a database in which alice and bob have
\* registered and nobody has logged in yet
InitSession ==
    /\ variant \in {1, 2}
    /\ now = 0
    /\ users = << [username |-> "alice", password |-> BcryptHash("pw1")],
                  [username |-> "bob", password |-> BcryptHash("pw2")] >>
    /\ minted = {}
    /\ loggedOut = {}
    /\ posts = [p \in PostIds |-> NoPost]
    /\ nextPost = 0
    /\ media = {}
    /\ nextObj = 0
    /\ reqs = [c \in Conns |-> Idle]
    /\ sent = Idle
    /\ hist = [p \in PostIds |-> NoHist]

\* logins, logouts and the clock, with the protected calls made one at a
\* time, complete and with every database and media call succeeding
NextSession ==
    \/ Flush
    \/ Tick
    \/ \E username \in Usernames, password \in Passwords : Login(username, password, TRUE)
    \/ \E token \in TokenInputs : Logout(token)
    \/ \E token \in TokenInputs : Profile(token)
    \/ \E token \in TokenInputs : CreateStart("c1", token, Body("T1", "S1", "C1"), TRUE)
    \/ CreateUpload("c1", TRUE)
    \/ CreateInsert("c1", "ok")
    \/ \E token \in TokenInputs, id \in PostIds :
            PutStart("c1", token, id, Body("T2", "S2", "C2"), FALSE)
    \/ PutFind("c1", TRUE)
    \/ PutSave("c1", TRUE)
    \/ \E token \in TokenInputs, id \in PostIds : DeleteStart("c1", token, id)
    \/ DeleteFind("c1", TRUE)
    \/ DeleteRemove("c1", TRUE)
    \/ DeleteDestroy("c1", TRUE)

SpecSession == InitSession /\ [][NextSession]_vars

(***************************************************************************)
(* The claims.  `sent` shows each request in the state in which it ends,   *)
(* so a statement about "every call" is an invariant over `sent` and over  *)
(* the requests in flight.                                                 *)
(***************************************************************************)
InFlight == {c \in Conns : reqs[c].pc # "idle"}
Quiescent == InFlight = {} /\ sent = Idle
NoEffects(r) == r.uploads = 0 /\ r.destroyed = <<>> /\ r.writes = 0

\* C1: a PUT or DELETE with a valid token whose userId is not the author of
\* the post the lookup returned ends with 403 Forbidden and has issued no
\* upload, no destroy and no database write; no request that got past the
\* lookup belongs to anyone but the author of the document it loaded.  (A
\* call whose lookup itself throws never compares anything: see C9.)
C1_NonOwnerForbidden ==
    /\ (/\ sent.kind \in {"put", "delete"}
        /\ sent.cred = "good"
        /\ sent.doc.exists
        /\ sent.doc.author # sent.userId)
       => (sent.pc = "done" /\ sent.status = 403 /\ NoEffects(sent))
    /\ \A c \in InFlight :
         (reqs[c].kind \in {"put", "delete"} /\ reqs[c].doc.exists)
           => reqs[c].doc.author = reqs[c].userId

C1_Witness ==
    /\ sent.kind = "put"
    /\ sent.cred = "good"
    /\ sent.file = "temp"
    /\ sent.doc.exists
    /\ sent.doc.cover # NoCover
    /\ sent.doc.author # sent.userId
    /\ sent.status = 403

\* C2: a PUT or DELETE whose cookie is absent, malformed, wrongly signed or
\* expired ends with 401 Unauthorized before any post lookup and without any
\* upload, destroy or database write; only requests with a good token are
\* ever in flight.
C2_BadTokenUnauthorized ==
    /\ (sent.kind \in {"put", "delete"} /\ sent.cred # "good")
       => (/\ sent.pc = "done"
           /\ sent.status = 401
           /\ ~sent.looked
           /\ NoEffects(sent))
    /\ \A c \in InFlight :
         reqs[c].kind \in {"put", "delete"} => reqs[c].cred = "good"

C2_Witness ==
    /\ sent.kind = "delete"
    /\ sent.cred = "expired"
    /\ sent.status = 401
    /\ posts[1].exists

\* C3 (as claimed): a POST /post that is rejected with 401 or 400 has issued
\* no upload, created no post and left the local file as multer stored it.
C3_RejectedCreateNoSideEffects ==
    (sent.kind = "create" /\ sent.status \in {400, 401})
      => (/\ sent.uploads = 0
          /\ sent.writes = 0
          /\ sent.file \in {"none", "temp"})

\* C4 (as claimed): usernames are unique among the users in every reachable
\* state, and a registration that answers 201 made the only user of its name.
C4_UsernamesUnique ==
    /\ \A u, v \in 1..Len(users) : users[u].username = users[v].username => u = v
    /\ (sent.kind = "register" /\ sent.status = 201)
         => \A u \in 1..Len(users) : users[u].username = sent.username => u = sent.outId

\* C5 (as claimed): a login with the username and the password of a
\* registration answers 200 and sets a token whose verified claims are that
\* user's id and username; any other login with both fields present answers
\* 400 'Invalid credentials' and sets no token.  (Answers of 500 on a failing
\* database are left aside.)
C5_LoginIffRegisteredPair ==
    (/\ sent.kind = "login"
     /\ sent.status # 500
     /\ sent.username # Missing
     /\ sent.password # Missing)
      => LET registered == {u \in 1..Len(users) :
                              /\ users[u].username = sent.username
                              /\ BcryptCompare(sent.password, users[u].password)}
         IN IF registered # {}
            THEN /\ sent.status = 200
                 /\ JwtVerify(sent.cookie, now)
                 /\ \A u \in registered :
                      sent.cookie.userId = u /\ sent.cookie.username = users[u].username
            ELSE /\ sent.status = 400
                 /\ sent.error = "Invalid credentials"
                 /\ sent.cookie = AbsentToken

\* the cover's final "/"-separated segment, and a segment without its extension
FinalSegment(text) ==
    LET n == CHOOSE k \in 0..Len(text) :
                /\ \A i \in (Len(text) - k + 1)..Len(text) : text[i] # "/"
                /\ k = Len(text) \/ text[Len(text) - k] = "/"
    IN SubSeq(text, Len(text) - n + 1, Len(text))
StripExtension(segment) ==
    IF \E i \in 1..Len(segment) : segment[i] = "."
    THEN SubSeq(segment, 1,
                (CHOOSE i \in 1..Len(segment) :
                    segment[i] = "." /\ \A j \in (i + 1)..Len(segment) : segment[j] # ".") - 1)
    ELSE segment

\* C6: a DELETE that answers 200 for a post with a cover has issued exactly
\* one destroy call, for 'posts/' + the final path segment of the stored
\* cover without its extension; for a post without a cover it has issued none.
C6_DeleteDestroysCoverOnce ==
    (sent.kind = "delete" /\ sent.status = 200)
      => sent.destroyed =
           IF sent.doc.cover # NoCover
           THEN << <<"posts", "/">> \o StripExtension(FinalSegment(sent.doc.cover)) >>
           ELSE <<>>

C6_Witness ==
    /\ sent.kind = "delete"
    /\ sent.status = 200
    /\ sent.doc.cover # NoCover
    /\ Len(sent.destroyed) = 1
    /\ media = {}

\* C7 (as claimed): whenever no request is in flight, every object the media
\* store holds is the current cover of a post that exists.
C7_NoOrphanedMedia ==
    Quiescent => \A o \in media : \E p \in PostIds :
                    posts[p].exists /\ posts[p].cover = SecureUrl(o)

\* C8 (as claimed): a POST /post or PUT /post/:id that came with a file has
\* deleted the temporary file when it ends, whatever the exit.
C8_TempFileDeleted ==
    (sent.kind \in {"create", "put"} /\ sent.file # "none") => sent.file = "deleted"

\* C9 (as claimed): a create, update or delete that got as far as calling
\* the database or the media store always ends with a response (a 500 when
\* the call failed); none is left without one.
C9_FailureAnswered500 ==
    (/\ sent.kind \in {"create", "put", "delete"}
     /\ sent.looked \/ ~NoEffects(sent))
      => sent.pc = "done"

\* C10: GET /post/:id of a post that a POST /post created with 201, and that
\* no call has updated or deleted since, answers 200 with the title, summary
\* and content that call sent and the locator its upload returned.
C10_CreateThenGet ==
    \A p \in PostIds :
      (/\ sent.kind = "get"
       /\ sent.id = p
       /\ sent.status # 500
       /\ hist[p].made
       /\ ~hist[p].touched)
        => (/\ sent.status = 200
            /\ sent.post.title = hist[p].body.title
            /\ sent.post.summary = hist[p].body.summary
            /\ sent.post.content = hist[p].body.content
            /\ sent.post.cover = hist[p].cover
            /\ hist[p].cover # NoCover)

C10_Witness ==
    /\ sent.kind = "get"
    /\ sent.status = 200
    /\ hist[sent.id].made
    /\ ~hist[sent.id].touched
    /\ sent.post.title = "T1"
    /\ sent.post.cover = SecureUrl(1)

\* C11: a post's author is the verified userId of the request that created
\* it and never changes: every post that exists has the author its creating
\* call was verified as, and every update or delete that wrote to the
\* database (answered or still in flight) carried a good token whose userId
\* is that author.
C11_AuthorImmutable ==
    /\ \A p \in PostIds : posts[p].exists => posts[p].author = hist[p].by
    /\ \A r \in {sent} \cup {reqs[c] : c \in Conns} :
         (r.kind \in {"put", "delete"} /\ (r.writes > 0 \/ r.status = 200))
           => (/\ r.cred = "good"
               /\ r.userId = hist[r.id].by
               /\ r.doc.author = hist[r.id].by)

\* bob updates, with a new cover, the post that bob created
C11_Witness ==
    /\ sent.kind = "put"
    /\ sent.status = 200
    /\ sent.userId = 2
    /\ sent.uploads = 1
    /\ hist[sent.id].by = 2
    /\ posts[sent.id].author = 2

\* the requests the server holds or has just ended
Requests == {sent} \cup {reqs[c] : c \in Conns}
\* the destroy calls a PUT with a new file owes to the document it loaded
OldCoverDestroys(r) ==
    IF r.doc.cover # NoCover THEN <<PublicIdOf(r.doc.cover)>> ELSE <<>>

\* C12: an owner PUT that came with a file runs upload, then the destroy of
\* the previous cover's object (only if the loaded post had a cover), then
\* the save.  Before the upload nothing was done; at the destroy the upload
\* is done (its object is in the store) and nothing was destroyed or saved;
\* at the save the upload and the destroy owed are done and nothing was
\* saved; a 200 follows one upload, the destroy owed and one save.  If the
\* upload fails the call ends having issued no destroy and no save.
C12_UploadDestroySave ==
    \A r \in Requests :
      (r.kind = "put" /\ r.file # "none" /\ r.doc.exists /\ r.doc.author = r.userId) =>
        /\ r.pc = "upload" => (r.uploads = 0 /\ r.destroyed = <<>> /\ r.writes = 0)
        /\ r.pc = "destroy" =>
              /\ r.uploads = 1 /\ r.destroyed = <<>> /\ r.writes = 0
              /\ r.doc.cover # NoCover
              /\ \E o \in media : SecureUrl(o) = r.newCover
        /\ r.pc = "save" =>
              /\ r.uploads = 1 /\ r.destroyed = OldCoverDestroys(r) /\ r.writes = 0
              /\ \E o \in media : SecureUrl(o) = r.newCover
        /\ (r.pc = "done" /\ r.status = 200) =>
              /\ r.uploads = 1 /\ r.destroyed = OldCoverDestroys(r) /\ r.writes = 1
              /\ r.post.cover = r.newCover /\ r.newCover # r.doc.cover
        /\ (r.uploads = 1 /\ r.newCover = r.doc.cover) =>
              (r.pc = "hung" /\ r.destroyed = <<>> /\ r.writes = 0)

\* the previous cover's object is gone, the new one is stored and saved
C12_Witness ==
    /\ sent.kind = "put"
    /\ sent.status = 200
    /\ sent.doc.cover = SecureUrl(1)
    /\ sent.destroyed = <<PublicId(1)>>
    /\ sent.newCover = SecureUrl(2)
    /\ media = {2}
    /\ posts[sent.id].cover = SecureUrl(2)

\* C13 (as claimed): while the post row exists, no DELETE has issued the
\* destroy of its cover's object; the row goes first.
C13_RowDeletedBeforeCover ==
    \A r \in Requests :
      (r.kind = "delete" /\ r.destroyed # <<>>) => ~posts[r.id].exists

\* C14: an owner PUT that came without a file issues no upload and no
\* destroy, and its save leaves the post's cover (and author) as stored just
\* before it, and the media store as it was; the document it answers with
\* carries the title, summary and content of the request and the cover it
\* loaded.
C14_NoFileKeepsCover ==
    /\ [](\A r \in Requests :
            (r.kind = "put" /\ r.file = "none") =>
              /\ r.uploads = 0
              /\ r.destroyed = <<>>
              /\ (r.status = 200) =>
                    /\ r.writes = 1
                    /\ r.post.cover = r.doc.cover
                    /\ r.post.title = r.body.title
                    /\ r.post.summary = r.body.summary
                    /\ r.post.content = r.body.content)
    /\ [][(sent'.kind = "put" /\ sent'.file = "none" /\ sent'.status = 200) =>
            /\ posts'[sent'.id].exists
            /\ posts'[sent'.id].cover = posts[sent'.id].cover
            /\ posts'[sent'.id].author = posts[sent'.id].author
            /\ media' = media
            /\ nextObj' = nextObj]_vars

\* a PUT without a file has answered 200 after another PUT replaced the
\* cover it had loaded: the replaced cover is still the stored one
C14_Witness ==
    /\ sent.kind = "put"
    /\ sent.file = "none"
    /\ sent.status = 200
    /\ sent.doc.cover = SecureUrl(1)
    /\ posts[sent.id].cover = SecureUrl(2)
    /\ media = {2}

Protected == {"profile", "create", "put", "delete"}

\* C15: logout revokes nothing.  A step that answers a logout leaves the
\* users, the issued tokens, the posts, the media store and the requests in
\* flight as they were.  A token that a login issued is good exactly until
\* one hour after its issue, and a protected call that came with such a
\* token whose holder has logged out since is never answered 401: /profile
\* answers 200 with the token's claims, and create, update and delete go on
\* as that user.
C15_LogoutRevokesNothing ==
    /\ [][sent'.kind = "logout" =>
            UNCHANGED <<variant, now, users, minted, posts, nextPost, media, nextObj,
                        reqs, hist>>]_vars
    /\ [](\A r \in Requests :
            (r.kind \in Protected /\ r.cookie \in loggedOut /\ r.cred = "good") =>
              /\ ~(r.pc = "done" /\ r.status = 401)
              /\ r.userId = r.cookie.userId
              /\ r.kind = "profile" =>
                    (r.status = 200 /\ r.username = r.cookie.username))
    /\ []((sent.kind = "profile" /\ sent.cookie \in minted) =>
            (sent.cred = "good" <=> now < sent.cookie.iat + TokenTTL))

\* bob logged in after the clock step, logged out, and then updated his post
\* with the token he kept
C15_Witness ==
    /\ sent.kind = "put"
    /\ sent.status = 200
    /\ sent.cookie = JwtSign(2, "bob", TokenTTL)
    /\ sent.cookie \in loggedOut
    /\ now = TokenTTL

\* C16 (as claimed): a PUT or DELETE whose destroy call was rejected has
\* still done its database write (the save, or the removal of the row) when
\* it ends, and has issued the destroy once only.
C16_DestroyFailureDoesNotBlock ==
    (sent.kind \in {"put", "delete"} /\ sent.error = "destroy rejected")
      => (sent.writes = 1 /\ Len(sent.destroyed) = 1)

\* C17 (as claimed): last writer wins.  Right after a PUT's save has answered
\* 200, the stored title, summary, content and cover are all the values that
\* PUT wrote (the request's text fields and the cover it ended with),
\* whatever other PUTs have saved since it loaded the post.
C17_LastWriterWins ==
    (sent.kind = "put" /\ sent.status = 200) =>
      /\ posts[sent.id].title = sent.body.title
      /\ posts[sent.id].summary = sent.body.summary
      /\ posts[sent.id].content = sent.body.content
      /\ posts[sent.id].cover = sent.newCover

\* the cover of post p refers to an object that the media store holds
CoverLive(p) ==
    posts[p].cover # NoCover => \E o \in media : SecureUrl(o) = posts[p].cover

\* C18 (as claimed): whenever no request is in flight, the cover of every
\* post that exists refers to an object that the media store still holds.
C18_NoDanglingCover ==
    Quiescent => \A p \in PostIds : posts[p].exists => CoverLive(p)

====
